---------------------------- MODULE Spec2Model ----------------------------
(***************************************************************************)
(* Model of the mmWave serial collector (NEW FILES/collecter.py and        *)
(* OLD FILES/collector.py) and of the human detector                       *)
(* (NEW FILES/detection.py).                                               *)
(*                                                                         *)
(* Bytes are integers 0..255 and buffers are sequences of bytes.  A        *)
(* little-endian u32 is decoded from its four bytes; a float32 is decoded  *)
(* from its IEEE-754 fields into fixed point (sixteenths), an int16 by     *)
(* two's complement.  Range, a square root, is carried as its square.      *)
(***************************************************************************)
EXTENDS Integers, Sequences, FiniteSets, TLC

(***************************************************************************)
(* Program constants.                                                      *)
(***************************************************************************)
MAGIC_WORD == <<2, 1, 4, 3, 6, 5, 8, 7>>
TLV_HEADER_SIZE == 8
MinHeaderOld == 40
MaxPacketLenOld == 65536
TrimThresholdOld == 2048
PointSize == 16
SideInfoSize == 4

(***************************************************************************)
(* Byte-level helpers: slicing, find, struct.unpack_from.                  *)
(***************************************************************************)
Min(a, b) == IF a <= b THEN a ELSE b

\* data[from : to] with Python's 0-based, end-exclusive indices.
Slice(data, from, to) ==
    LET hi == Min(to, Len(data))
    IN  IF from >= hi THEN << >> ELSE SubSeq(data, from + 1, hi)

\* del data[:n]
DelPrefix(data, n) == Slice(data, n, Len(data))

\* bytearray.find(pat): least 0-based offset of pat in data, or -1.
Find(data, pat) ==
    LET hits == {i \in 0 .. (Len(data) - Len(pat)) :
                    \A j \in 1 .. Len(pat) : data[i + j] = pat[j]}
    IN  IF hits = {} THEN -1 ELSE CHOOSE i \in hits : \A k \in hits : i <= k

\* struct.unpack_from('<I', data, off) raises struct.error unless 4 bytes exist.
CanUnpack(data, off, size) == off + size <= Len(data)

U32(data, off) ==
    data[off + 1] + 256 * data[off + 2] + 65536 * data[off + 3]
        + 16777216 * data[off + 4]

\* '<h': two's-complement int16.
I16(data, off) ==
    LET u == data[off + 1] + 256 * data[off + 2]
    IN  IF u >= 32768 THEN u - 65536 ELSE u

Pow2(n) == 2 ^ n

\* Largest magnitude (in sixteenths) the fixed-point floats carry.
F32Sat == 16384

\* '<f': IEEE-754 binary32 from its sign, exponent and fraction fields, in
\* sixteenths (truncated toward zero); magnitudes of F32Sat sixteenths and
\* more saturate at F32Sat.
F32(data, off) ==
    LET b0 == data[off + 1]
        b1 == data[off + 2]
        b2 == data[off + 3]
        b3 == data[off + 4]
        sign == b3 \div 128
        expo == (b3 % 128) * 2 + (b2 \div 128)
        frac == (b2 % 128) * 65536 + b1 * 256 + b0
        sig  == IF expo = 0 THEN frac ELSE 8388608 + frac
        sh   == (IF expo = 0 THEN 1 ELSE expo) - 127 - 23 + 4
        mag  == IF sh >= -9 THEN F32Sat
                ELSE IF sh < -24 THEN 0
                ELSE Min(sig \div Pow2(-sh), F32Sat)
    IN  IF sign = 1 THEN -mag ELSE mag

(***************************************************************************)
(* NEW FILES/collecter.py: _parse_packet.                                  *)
(***************************************************************************)
\* Mutant: a point for every whole 16 bytes of the payload, whatever the
\* header's object count.
RECURSIVE decode_points_all(_, _)
decode_points_all(tlv_data, n) ==
    IF Len(tlv_data) < PointSize THEN << >>
    ELSE << [x |-> F32(tlv_data, 0), y |-> F32(tlv_data, 4),
             z |-> F32(tlv_data, 8), v |-> F32(tlv_data, 12)] >>
         \o decode_points_all(DelPrefix(tlv_data, PointSize), n - 1)

\* for _ in range(num_detected_obj): unpack one '<ffff' and drop it from tlv_data.
RECURSIVE decode_points(_, _)
decode_points(tlv_data, n) ==
    IF n = 0 \/ Len(tlv_data) < PointSize THEN << >>
    ELSE << [x |-> F32(tlv_data, 0), y |-> F32(tlv_data, 4),
             z |-> F32(tlv_data, 8), v |-> F32(tlv_data, 12)] >>
         \o decode_points(DelPrefix(tlv_data, PointSize), n - 1)

\* for _ in range(num_detected_obj): unpack one '<hh', keep snr (in tenths).
RECURSIVE decode_side_info(_, _)
decode_side_info(tlv_data, n) ==
    IF n = 0 \/ Len(tlv_data) < SideInfoSize THEN << >>
    ELSE << I16(tlv_data, 0) >>
         \o decode_side_info(DelPrefix(tlv_data, SideInfoSize), n - 1)

\* Mutant: no test of the payload against the end of the frame; the slice
\* gives what bytes there are.
RECURSIVE tlv_loop_new_unchecked(_, _, _, _, _, _)
tlv_loop_new_unchecked(data, offset, k, num_detected_obj, points, side_info) ==
    IF k = 0 \/ offset + TLV_HEADER_SIZE > Len(data)
    THEN [points |-> points, side_info |-> side_info, records |-> << >>]
    ELSE LET tlv_type   == U32(data, offset)
             tlv_length == U32(data, offset + 4)
             off2       == offset + TLV_HEADER_SIZE
             tlv_data   == Slice(data, off2, off2 + tlv_length)
         IN  [tlv_loop_new_unchecked(data, off2 + tlv_length, k - 1, num_detected_obj,
                  IF tlv_type = 1
                  THEN points \o decode_points(tlv_data, num_detected_obj)
                  ELSE points,
                  IF tlv_type = 7
                  THEN side_info \o decode_side_info(tlv_data, num_detected_obj)
                  ELSE side_info)
              EXCEPT !.records =
                  << [offset |-> offset, type |-> tlv_type, length |-> tlv_length] >>
                      \o @]

\* Mutant: the offset moves past the payload only of the types it decodes.
RECURSIVE tlv_loop_new_noskip(_, _, _, _, _, _)
tlv_loop_new_noskip(data, offset, k, num_detected_obj, points, side_info) ==
    IF k = 0 \/ offset + TLV_HEADER_SIZE > Len(data)
    THEN [points |-> points, side_info |-> side_info, records |-> << >>]
    ELSE LET tlv_type   == U32(data, offset)
             tlv_length == U32(data, offset + 4)
             off2       == offset + TLV_HEADER_SIZE
             tlv_data   == Slice(data, off2, off2 + tlv_length)
         IN  IF off2 + tlv_length > Len(data)
             THEN [points |-> points, side_info |-> side_info, records |-> << >>]
             ELSE [tlv_loop_new_noskip(data,
                       IF tlv_type \in {1, 7} THEN off2 + tlv_length ELSE off2,
                       k - 1, num_detected_obj,
                       IF tlv_type = 1
                       THEN points \o decode_points(tlv_data, num_detected_obj)
                       ELSE points,
                       IF tlv_type = 7
                       THEN side_info \o decode_side_info(tlv_data, num_detected_obj)
                       ELSE side_info)
                   EXCEPT !.records =
                       << [offset |-> offset, type |-> tlv_type, length |-> tlv_length] >>
                           \o @]

\* The for-loop over range(num_tlvs); k is the number of iterations left.
\* records is the history of the loop: the offset, type and length of every
\* record whose payload it has sliced, in order.
RECURSIVE tlv_loop_new(_, _, _, _, _, _)
tlv_loop_new(data, offset, k, num_detected_obj, points, side_info) ==
    IF k = 0 \/ offset + TLV_HEADER_SIZE > Len(data)
    THEN [points |-> points, side_info |-> side_info, records |-> << >>]
    ELSE LET tlv_type   == U32(data, offset)
             tlv_length == U32(data, offset + 4)
             off2       == offset + TLV_HEADER_SIZE
             tlv_data   == Slice(data, off2, off2 + tlv_length)
         IN  IF off2 + tlv_length > Len(data)
             THEN [points |-> points, side_info |-> side_info, records |-> << >>]
             ELSE [tlv_loop_new(data, off2 + tlv_length, k - 1, num_detected_obj,
                       IF tlv_type = 1
                       THEN points \o decode_points(tlv_data, num_detected_obj)
                       ELSE points,
                       IF tlv_type = 7
                       THEN side_info \o decode_side_info(tlv_data, num_detected_obj)
                       ELSE side_info)
                   EXCEPT !.records =
                       << [offset |-> offset, type |-> tlv_type, length |-> tlv_length] >>
                           \o @]

\* Mutant: points and side info are paired as zip pairs them, up to the
\* shorter of the two.
RECURSIVE pair_objects_zip(_, _, _)
pair_objects_zip(points, side_info, i) ==
    IF i > Len(points) \/ i > Len(side_info) THEN << >>
    ELSE LET p == points[i]
         IN  << [x |-> p.x, y |-> p.y, z |-> p.z, velocity |-> p.v,
                 rng2 |-> p.x * p.x + p.y * p.y + p.z * p.z,
                 snr |-> side_info[i]] >>
             \o pair_objects_zip(points, side_info, i + 1)

\* MovingObject(x, y, z, velocity, rng, snr); rng2 is rng squared.
RECURSIVE pair_objects(_, _, _)
pair_objects(points, side_info, i) ==
    IF i > Len(points) THEN << >>
    ELSE LET p == points[i]
         IN  << [x |-> p.x, y |-> p.y, z |-> p.z, velocity |-> p.v,
                 rng2 |-> p.x * p.x + p.y * p.y + p.z * p.z,
                 snr |-> IF i <= Len(side_info) THEN side_info[i] ELSE 0] >>
             \o pair_objects(points, side_info, i + 1)

\* raised: struct.error from the two unguarded header reads at 28 and 32.
\* Beside the objects returned, the result shows the two lists they are made
\* from and the history of the TLV loop.
parse_packet_new(data, header_len) ==
    IF ~CanUnpack(data, 28, 4) \/ ~CanUnpack(data, 32, 4)
    THEN [raised |-> TRUE, objs |-> << >>, points |-> << >>, side_info |-> << >>,
          records |-> << >>]
    ELSE LET r == tlv_loop_new(data, header_len, U32(data, 32), U32(data, 28),
                               << >>, << >>)
         IN  [raised |-> FALSE, objs |-> pair_objects(r.points, r.side_info, 1),
              points |-> r.points, side_info |-> r.side_info, records |-> r.records]

(***************************************************************************)
(* OLD FILES/collector.py: _parse_packet.                                  *)
(***************************************************************************)
\* for i in range(0, len(tlv_data), 16): one object per whole 16 bytes.
\* round(., 4) leaves sixteenths unchanged.
RECURSIVE decode_objects_old(_, _)
decode_objects_old(tlv_data, i) ==
    IF i >= Len(tlv_data) \/ i + PointSize > Len(tlv_data) THEN << >>
    ELSE LET x == F32(tlv_data, i)
             y == F32(tlv_data, i + 4)
             z == F32(tlv_data, i + 8)
         IN  << [x |-> x, y |-> y, z |-> z, velocity |-> F32(tlv_data, i + 12),
                 rng2 |-> x * x + y * y + z * z] >>
             \o decode_objects_old(tlv_data, i + PointSize)

\* while offset + 8 <= len(data)
RECURSIVE tlv_loop_old(_, _, _)
tlv_loop_old(data, offset, moving) ==
    IF offset + 8 > Len(data) THEN moving
    ELSE LET tlv_type   == U32(data, offset)
             tlv_length == U32(data, offset + 4)
             off2       == offset + 8
             tlv_data   == Slice(data, off2, off2 + tlv_length)
         IN  IF tlv_length = 0 THEN tlv_loop_old(data, off2, moving)
             ELSE IF off2 + tlv_length > Len(data) THEN moving
             ELSE tlv_loop_old(data, off2 + tlv_length,
                      IF tlv_type = 1
                      THEN moving \o decode_objects_old(tlv_data, 0)
                      ELSE moving)

parse_packet_old(data) ==
    IF Len(data) < MinHeaderOld
    THEN [raised |-> FALSE, objs |-> << >>]
    ELSE [raised |-> FALSE, objs |-> tlv_loop_old(data, MinHeaderOld, << >>)]

(***************************************************************************)
(* _process_buffer: one iteration of its while-True loop.  The result says *)
(* what the buffer becomes, whether the loop is left (break, or an         *)
(* exception leaving the method), the packet sliced off if any, and what   *)
(* _parse_packet made of it.                                               *)
(***************************************************************************)
NoPacket(buf, stop) ==
    [buffer |-> buf, done |-> stop, packets |-> << >>, raised |-> FALSE,
     objs |-> << >>]

\* Mutant: a header that cannot be unpacked yet makes the buffer be cleared.
process_buffer_iter_new_clears(buf) ==
    LET idx == Find(buf, MAGIC_WORD)
        b1  == IF idx > 0 THEN DelPrefix(buf, idx) ELSE buf
    IN  IF idx = -1 THEN NoPacket(buf, TRUE)
        ELSE IF ~CanUnpack(b1, 8, 4) \/ ~CanUnpack(b1, 12, 4)
        THEN NoPacket(<< >>, TRUE)
        ELSE LET header_len       == U32(b1, 8)
                 total_packet_len == U32(b1, 12)
                 packet           == Slice(b1, 0, total_packet_len)
                 r                == parse_packet_new(packet, header_len)
             IN  IF Len(b1) < total_packet_len THEN NoPacket(b1, TRUE)
                 ELSE [buffer |-> DelPrefix(b1, total_packet_len),
                       done |-> r.raised, packets |-> << packet >>,
                       raised |-> r.raised, objs |-> r.objs]

process_buffer_iter_new(buf) ==
    LET idx == Find(buf, MAGIC_WORD)
        b1  == IF idx > 0 THEN DelPrefix(buf, idx) ELSE buf
    IN  IF idx = -1 THEN NoPacket(buf, TRUE)
        ELSE IF ~CanUnpack(b1, 8, 4) \/ ~CanUnpack(b1, 12, 4)
        THEN NoPacket(b1, TRUE)
        ELSE LET header_len       == U32(b1, 8)
                 total_packet_len == U32(b1, 12)
                 packet           == Slice(b1, 0, total_packet_len)
                 r                == parse_packet_new(packet, header_len)
             IN  IF Len(b1) < total_packet_len THEN NoPacket(b1, TRUE)
                 ELSE [buffer |-> DelPrefix(b1, total_packet_len),
                       done |-> r.raised, packets |-> << packet >>,
                       raised |-> r.raised, objs |-> r.objs]

\* Mutant: a packet that is not yet whole is taken for an error and its
\* marker dropped.
process_buffer_iter_old_drops(buf) ==
    LET idx == Find(buf, MAGIC_WORD)
        b1  == IF idx > 0 THEN DelPrefix(buf, idx) ELSE buf
    IN  IF idx = -1
        THEN NoPacket(IF Len(buf) > TrimThresholdOld
                      THEN Slice(buf, Len(buf) - Len(MAGIC_WORD) * 2, Len(buf))
                      ELSE buf, TRUE)
        ELSE IF Len(b1) < MinHeaderOld THEN NoPacket(b1, TRUE)
        ELSE LET total_packet_len == U32(b1, 12)
                 packet           == Slice(b1, 0, total_packet_len)
                 r                == parse_packet_old(packet)
             IN  IF total_packet_len <= 0 \/ total_packet_len > MaxPacketLenOld
                    \/ Len(b1) < total_packet_len
                 THEN NoPacket(DelPrefix(b1, Len(MAGIC_WORD)), FALSE)
                 ELSE [buffer |-> DelPrefix(b1, total_packet_len),
                       done |-> FALSE, packets |-> << packet >>,
                       raised |-> r.raised, objs |-> r.objs]

\* Mutant: a total length that fails the sanity check is logged and the
\* loop goes on with the buffer as it is.
process_buffer_iter_old_nodrop(buf) ==
    LET idx == Find(buf, MAGIC_WORD)
        b1  == IF idx > 0 THEN DelPrefix(buf, idx) ELSE buf
    IN  IF idx = -1
        THEN NoPacket(IF Len(buf) > TrimThresholdOld
                      THEN Slice(buf, Len(buf) - Len(MAGIC_WORD) * 2, Len(buf))
                      ELSE buf, TRUE)
        ELSE IF Len(b1) < MinHeaderOld THEN NoPacket(b1, TRUE)
        ELSE LET total_packet_len == U32(b1, 12)
                 packet           == Slice(b1, 0, total_packet_len)
                 r                == parse_packet_old(packet)
             IN  IF total_packet_len <= 0 \/ total_packet_len > MaxPacketLenOld
                 THEN NoPacket(b1, FALSE)
                 ELSE IF Len(b1) < total_packet_len THEN NoPacket(b1, TRUE)
                 ELSE [buffer |-> DelPrefix(b1, total_packet_len),
                       done |-> FALSE, packets |-> << packet >>,
                       raised |-> r.raised, objs |-> r.objs]

\* Mutant: the trim keeps a tail of half the marker's length.
process_buffer_iter_old_halftail(buf) ==
    LET idx == Find(buf, MAGIC_WORD)
        b1  == IF idx > 0 THEN DelPrefix(buf, idx) ELSE buf
    IN  IF idx = -1
        THEN NoPacket(IF Len(buf) > TrimThresholdOld
                      THEN Slice(buf, Len(buf) - Len(MAGIC_WORD) \div 2, Len(buf))
                      ELSE buf, TRUE)
        ELSE IF Len(b1) < MinHeaderOld THEN NoPacket(b1, TRUE)
        ELSE LET total_packet_len == U32(b1, 12)
                 packet           == Slice(b1, 0, total_packet_len)
                 r                == parse_packet_old(packet)
             IN  IF total_packet_len <= 0 \/ total_packet_len > MaxPacketLenOld
                 THEN NoPacket(DelPrefix(b1, Len(MAGIC_WORD)), FALSE)
                 ELSE IF Len(b1) < total_packet_len THEN NoPacket(b1, TRUE)
                 ELSE [buffer |-> DelPrefix(b1, total_packet_len),
                       done |-> FALSE, packets |-> << packet >>,
                       raised |-> r.raised, objs |-> r.objs]

\* Mutant: the packet is sliced one byte short.
process_buffer_iter_old_short(buf) ==
    LET idx == Find(buf, MAGIC_WORD)
        b1  == IF idx > 0 THEN DelPrefix(buf, idx) ELSE buf
    IN  IF idx = -1
        THEN NoPacket(IF Len(buf) > TrimThresholdOld
                      THEN Slice(buf, Len(buf) - Len(MAGIC_WORD) * 2, Len(buf))
                      ELSE buf, TRUE)
        ELSE IF Len(b1) < MinHeaderOld THEN NoPacket(b1, TRUE)
        ELSE LET total_packet_len == U32(b1, 12)
                 packet           == Slice(b1, 0, total_packet_len - 1)
                 r                == parse_packet_old(packet)
             IN  IF total_packet_len <= 0 \/ total_packet_len > MaxPacketLenOld
                 THEN NoPacket(DelPrefix(b1, Len(MAGIC_WORD)), FALSE)
                 ELSE IF Len(b1) < total_packet_len THEN NoPacket(b1, TRUE)
                 ELSE [buffer |-> DelPrefix(b1, total_packet_len),
                       done |-> FALSE, packets |-> << packet >>,
                       raised |-> r.raised, objs |-> r.objs]

process_buffer_iter_old(buf) ==
    LET idx == Find(buf, MAGIC_WORD)
        b1  == IF idx > 0 THEN DelPrefix(buf, idx) ELSE buf
    IN  IF idx = -1
        THEN NoPacket(IF Len(buf) > TrimThresholdOld
                      THEN Slice(buf, Len(buf) - Len(MAGIC_WORD) * 2, Len(buf))
                      ELSE buf, TRUE)
        ELSE IF Len(b1) < MinHeaderOld THEN NoPacket(b1, TRUE)
        ELSE LET total_packet_len == U32(b1, 12)
                 packet           == Slice(b1, 0, total_packet_len)
                 r                == parse_packet_old(packet)
             IN  IF total_packet_len <= 0 \/ total_packet_len > MaxPacketLenOld
                 THEN NoPacket(DelPrefix(b1, Len(MAGIC_WORD)), FALSE)
                 ELSE IF Len(b1) < total_packet_len THEN NoPacket(b1, TRUE)
                 ELSE [buffer |-> DelPrefix(b1, total_packet_len),
                       done |-> FALSE, packets |-> << packet >>,
                       raised |-> r.raised, objs |-> r.objs]

(***************************************************************************)
(* The queue: queue.Queue(maxsize=queue_max).  Each queued entry carries   *)
(* the object and its identity (the count of objects offered so far).      *)
(***************************************************************************)
\* Mutant: a full queue gives up its oldest entry to the new object.
RECURSIVE put_all_new_evicts(_, _, _, _)
put_all_new_evicts(q, objs, next_id, cap) ==
    IF objs = << >> THEN q
    ELSE put_all_new_evicts(IF Len(q) >= cap
                            THEN Append(Tail(q), [id |-> next_id, obj |-> Head(objs)])
                            ELSE Append(q, [id |-> next_id, obj |-> Head(objs)]),
                            Tail(objs), next_id + 1, cap)

\* NEW: "if not self._data_q.full(): put_nowait(o)" for each o.
RECURSIVE put_all_new(_, _, _, _)
put_all_new(q, objs, next_id, cap) ==
    IF objs = << >> THEN q
    ELSE put_all_new(IF Len(q) >= cap THEN q
                     ELSE Append(q, [id |-> next_id, obj |-> Head(objs)]),
                     Tail(objs), next_id + 1, cap)

\* Mutant: on queue.Full nothing is evicted before the new entry is put.
RECURSIVE put_all_old_noevict(_, _, _, _)
put_all_old_noevict(q, objs, next_id, cap) ==
    IF objs = << >> THEN q
    ELSE put_all_old_noevict(Append(q, [id |-> next_id, obj |-> Head(objs)]),
                             Tail(objs), next_id + 1, cap)

\* OLD: put_nowait(o); on queue.Full get_nowait() then put_nowait(o).
RECURSIVE put_all_old(_, _, _, _)
put_all_old(q, objs, next_id, cap) ==
    IF objs = << >> THEN q
    ELSE put_all_old(IF Len(q) >= cap
                     THEN Append(Tail(q), [id |-> next_id, obj |-> Head(objs)])
                     ELSE Append(q, [id |-> next_id, obj |-> Head(objs)]),
                     Tail(objs), next_id + 1, cap)

\* Mutant: the loop test is len(items) <= max_items.
RECURSIVE drain_one_more(_, _, _)
drain_one_more(q, items, max_items) ==
    IF Len(items) > max_items \/ q = << >>
    THEN [items |-> items, q |-> q]
    ELSE drain_one_more(Tail(q), Append(items, Head(q)), max_items)

\* get_latest: while len(items) < max_items: items.append(get_nowait()).
RECURSIVE drain(_, _, _)
drain(q, items, max_items) ==
    IF Len(items) >= max_items \/ q = << >>
    THEN [items |-> items, q |-> q]
    ELSE drain(Tail(q), Append(items, Head(q)), max_items)

(***************************************************************************)
(* The device's byte streams: frames in the wire format that the two       *)
(* _parse_packet read (marker, header length at 8, total length at 12,     *)
(* object count at 28, TLV count at 32, TLVs from the header length on),   *)
(* and noise between them.                                                 *)
(***************************************************************************)
LE32(n) == << n % 256, (n \div 256) % 256, (n \div 65536) % 256, n \div 16777216 >>

Zeros(n) == [i \in 1 .. n |-> 0]

Header(header_len, total_len, num_obj, num_tlvs) ==
    MAGIC_WORD \o LE32(header_len) \o LE32(total_len) \o Zeros(12)
        \o LE32(num_obj) \o LE32(num_tlvs) \o Zeros(4)

TLV(type, payload) == LE32(type) \o LE32(Len(payload)) \o payload

\* float32 encodings
F_1_0  == << 0, 0, 128, 63 >>
F_2_0  == << 0, 0, 0, 64 >>
F_3_0  == << 0, 0, 64, 64 >>
F_0_5  == << 0, 0, 0, 63 >>
F_m1_5 == << 0, 0, 192, 191 >>

PointA == F_1_0 \o F_2_0 \o F_3_0 \o F_0_5
PointB == F_m1_5 \o F_0_5 \o F_2_0 \o F_1_0
PointC == F_3_0 \o F_m1_5 \o F_1_0 \o F_m1_5

\* '<hh' snr_raw, noise_raw
SideA == << 123, 0, 5, 0 >>
SideB == << 246, 255, 7, 0 >>

Frame(num_obj, num_tlvs, tlvs) ==
    Header(40, 40 + Len(tlvs), num_obj, num_tlvs) \o tlvs

\* one point with its side info
FrameOne == Frame(1, 2, TLV(1, PointA) \o TLV(7, SideA))
\* two points, no side info
FrameTwo == Frame(2, 1, TLV(1, PointB \o PointC))
\* three points, side info for two of them
FrameThree == Frame(3, 2, TLV(1, PointA \o PointB \o PointC) \o TLV(7, SideA \o SideB))
\* an unknown TLV whose payload holds the marker, then one point
FrameInner == Frame(1, 2, TLV(9, MAGIC_WORD) \o TLV(1, PointC))
\* one point, then a TLV whose declared length runs past the frame
FrameTrunc == Frame(2, 3, TLV(1, PointB) \o LE32(1) \o LE32(64) \o PointA)
\* header only, no TLV
FrameEmpty == Frame(0, 0, << >>)
\* a frame of 16 bytes: the marker, header length 12, total length 16
FrameShort == MAGIC_WORD \o LE32(12) \o LE32(16)

\* noise ending in the first bytes of the marker
NoisePrefix == << 9, 2, 1, 250, 2, 1, 4 >>
NoisePlain  == << 7, 8, 0, 255 >>
\* noise holding the marker and, after it, a plausible total length
NoiseMarker == MAGIC_WORD \o LE32(40) \o LE32(48)
\* noise holding the marker followed by a total length over 64 KiB
NoiseOversize == Header(40, 70000, 0, 0)

\* noise holding the marker followed by total length 0
NoiseZeroLen == MAGIC_WORD \o LE32(40) \o LE32(0)
\* noise holding the marker followed by a total length under the header length
NoiseSmallLen == MAGIC_WORD \o LE32(40) \o LE32(20)

Seg(is_frame, bytes) == [frame |-> is_frame, bytes |-> bytes]

Streams ==
    << << Seg(TRUE, FrameOne) >>,
       << Seg(TRUE, FrameThree) >>,
       << Seg(TRUE, FrameInner) >>,
       << Seg(TRUE, FrameTrunc) >>,
       << Seg(FALSE, NoisePrefix), Seg(TRUE, FrameOne), Seg(FALSE, NoisePlain),
          Seg(TRUE, FrameTwo), Seg(FALSE, NoisePrefix) >>,
       << Seg(TRUE, FrameThree), Seg(TRUE, FrameEmpty), Seg(TRUE, FrameOne) >>,
       << Seg(FALSE, NoiseMarker), Seg(TRUE, FrameOne) >>,
       << Seg(FALSE, NoiseOversize), Seg(TRUE, FrameTwo) >>,
       << Seg(TRUE, FrameShort), Seg(TRUE, FrameOne) >>,
       << Seg(FALSE, NoiseZeroLen), Seg(TRUE, FrameOne) >>,
       << Seg(FALSE, NoiseSmallLen), Seg(TRUE, FrameOne) >> >>

\* Marker-free noise longer than the OLD collector's trim threshold.
NoiseLen == 2100
LongNoise == [i \in 1 .. NoiseLen |-> 10 + (i % 5)]

\* Streams of a marker with a corrupt total length and a frame without TLVs.
CorruptStreams ==
    << << Seg(FALSE, NoiseZeroLen), Seg(TRUE, FrameEmpty) >>,
       << Seg(FALSE, NoiseOversize), Seg(TRUE, FrameEmpty) >>,
       << Seg(FALSE, NoiseSmallLen), Seg(TRUE, FrameEmpty) >> >>

\* After the streams above: the long noise alone, the long noise followed
\* by a frame, and the streams of corrupt lengths.
AllStreams ==
    Streams \o << << Seg(FALSE, LongNoise) >>,
                  << Seg(FALSE, LongNoise), Seg(TRUE, FrameOne) >> >>
            \o CorruptStreams

RECURSIVE Concat(_)
Concat(segs) ==
    IF segs = << >> THEN << >> ELSE Head(segs).bytes \o Concat(Tail(segs))

RECURSIVE FramesOf(_)
FramesOf(segs) ==
    IF segs = << >> THEN << >>
    ELSE (IF Head(segs).frame THEN << Head(segs).bytes >> ELSE << >>)
         \o FramesOf(Tail(segs))

(***************************************************************************)
(* NEW FILES/detection.py: HumanDetector.  Lengths are integers in one     *)
(* unit, velocities are in tenths of a metre per second; a batch is the    *)
(* sequence of the rows of the DataFrame.                                  *)
(***************************************************************************)
\* self.movement_threshold = 0.1 m/s, in tenths
movement_threshold == 1

SetMin(S) == CHOOSE a \in S : \A b \in S : a <= b
SetMax(S) == CHOOSE a \in S : \A b \in S : a >= b
Abs(a) == IF a < 0 THEN -a ELSE a

RECURSIVE SumOver(_, _)
SumOver(f, S) ==
    IF S = {} THEN 0
    ELSE LET i == CHOOSE j \in S : TRUE IN f[i] + SumOver(f, S \ {i})

\* DBSCAN(eps, min_samples).fit(coords).labels_ : a point is a core point when
\* at least min_samples points (itself included) lie within eps of it; core
\* points within eps of each other share a cluster; clusters are numbered from
\* 0 in the order of their first core point; a point that is not core takes
\* the first-numbered cluster with a core point within eps of it, and -1 if
\* there is none.
Dist2(p, q) ==
    (p.x - q.x) * (p.x - q.x) + (p.y - q.y) * (p.y - q.y) + (p.z - q.z) * (p.z - q.z)

Neighbors(df, eps, i) == {j \in 1 .. Len(df) : Dist2(df[i], df[j]) <= eps * eps}

IsCore(df, eps, min_samples, i) == Cardinality(Neighbors(df, eps, i)) >= min_samples

RECURSIVE CoreComponent(_, _, _, _)
CoreComponent(df, eps, cores, S) ==
    LET S2 == S \cup {j \in cores : \E i \in S : j \in Neighbors(df, eps, i)}
    IN  IF S2 = S THEN S ELSE CoreComponent(df, eps, cores, S2)

\* seed[i]: the first core point of core point i's cluster.
labels_from_seeds(df, eps, cores, seed) ==
    LET seeds == {seed[i] : i \in cores}
    IN  [i \in 1 .. Len(df) |->
            LET near == {Cardinality({t \in seeds : t < seed[j]}) :
                            j \in Neighbors(df, eps, i) \cap cores}
            IN  IF i \in cores THEN Cardinality({t \in seeds : t < seed[i]})
                ELSE IF near = {} THEN -1 ELSE SetMin(near)]

\* (A value bound through a singleton set is computed once.)
labels_from_cores(df, eps, cores) ==
    CHOOSE labels \in
        {labels_from_seeds(df, eps, cores, seed) :
            seed \in {[i \in cores |-> SetMin(CoreComponent(df, eps, cores, {i}))]}} : TRUE

dbscan_labels(df, eps, min_samples) ==
    CHOOSE labels \in
        {labels_from_cores(df, eps, cores) :
            cores \in {{i \in 1 .. Len(df) : IsCore(df, eps, min_samples, i)}}} : TRUE

\* Mutant: the height test is min_human_height <= height <= max_human_height.
is_human_cluster_inclusive(cluster, params) ==
    LET xs == {cluster[i].x : i \in 1 .. Len(cluster)}
        ys == {cluster[i].y : i \in 1 .. Len(cluster)}
        zs == {cluster[i].z : i \in 1 .. Len(cluster)}
        width_x == SetMax(xs) - SetMin(xs)
        width_y == SetMax(ys) - SetMin(ys)
        height  == SetMax(zs) - SetMin(zs)
    IN  IF Len(cluster) < params.min_points_human THEN FALSE
        ELSE IF ~(params.min_human_height <= height /\ height <= params.max_human_height)
        THEN FALSE
        ELSE IF width_x * width_x + width_y * width_y
                    > params.max_human_width * params.max_human_width
        THEN FALSE
        ELSE TRUE

\* _is_human_cluster.  horizontal_spread > max_human_width is compared on the
\* squares, both sides being non-negative.
is_human_cluster(cluster, params) ==
    LET xs == {cluster[i].x : i \in 1 .. Len(cluster)}
        ys == {cluster[i].y : i \in 1 .. Len(cluster)}
        zs == {cluster[i].z : i \in 1 .. Len(cluster)}
        width_x == SetMax(xs) - SetMin(xs)
        width_y == SetMax(ys) - SetMin(ys)
        height  == SetMax(zs) - SetMin(zs)
    IN  IF Len(cluster) < params.min_points_human THEN FALSE
        ELSE IF ~(params.min_human_height < height /\ height < params.max_human_height)
        THEN FALSE
        ELSE IF width_x * width_x + width_y * width_y
                    > params.max_human_width * params.max_human_width
        THEN FALSE
        ELSE TRUE

\* df[df['cluster_id'] == cid]: the rows of the cluster, in row order.
RECURSIVE rows_of(_, _, _, _)
rows_of(df, labels, cid, i) ==
    IF i > Len(df) THEN << >>
    ELSE (IF labels[i] = cid THEN << df[i] >> ELSE << >>)
         \o rows_of(df, labels, cid, i + 1)

\* Mutant: the noise id is not filtered out of the ids the loop runs over.
RECURSIVE unique_clusters_all(_, _, _)
unique_clusters_all(labels, i, seen) ==
    IF i > Len(labels) THEN << >>
    ELSE IF labels[i] \in seen
         THEN unique_clusters_all(labels, i + 1, seen)
         ELSE << labels[i] >> \o unique_clusters_all(labels, i + 1, seen \cup {labels[i]})

\* df[df['cluster_id'] != -1]['cluster_id'].unique(): in order of appearance.
RECURSIVE unique_clusters(_, _, _)
unique_clusters(labels, i, seen) ==
    IF i > Len(labels) THEN << >>
    ELSE IF labels[i] = -1 \/ labels[i] \in seen
         THEN unique_clusters(labels, i + 1, seen)
         ELSE << labels[i] >> \o unique_clusters(labels, i + 1, seen \cup {labels[i]})

\* Mutant: the velocity test is avg_velocity >= movement_threshold.
cluster_label_ge(df, labels, cid, params) ==
    LET cluster_df == rows_of(df, labels, cid, 1)
        n          == Len(cluster_df)
        abs_sum    == SumOver([i \in 1 .. n |-> Abs(cluster_df[i].velocity)], 1 .. n)
    IN  IF is_human_cluster(cluster_df, params) THEN "Human"
        ELSE IF abs_sum >= movement_threshold * n THEN "Moving"
        ELSE "Static"

\* The label the loop body gives cluster cid.
cluster_label(df, labels, cid, params) ==
    LET cluster_df == rows_of(df, labels, cid, 1)
        n          == Len(cluster_df)
        abs_sum    == SumOver([i \in 1 .. n |-> Abs(cluster_df[i].velocity)], 1 .. n)
    IN  IF is_human_cluster(cluster_df, params) THEN "Human"
        \* avg_velocity > movement_threshold, both sides times n
        ELSE IF abs_sum > movement_threshold * n THEN "Moving"
        ELSE "Static"

\* Mutant: the append is outside the if, so every cluster gets a summary.
RECURSIVE human_info_of_all(_, _, _, _)
human_info_of_all(df, labels, cids, params) ==
    IF cids = << >> THEN << >>
    ELSE LET cid        == Head(cids)
             cluster_df == rows_of(df, labels, cid, 1)
             n          == Len(cluster_df)
         IN  << [id |-> cid, points |-> n,
                 centroid_sum |->
                     [x |-> SumOver([i \in 1 .. n |-> cluster_df[i].x], 1 .. n),
                      y |-> SumOver([i \in 1 .. n |-> cluster_df[i].y], 1 .. n),
                      z |-> SumOver([i \in 1 .. n |-> cluster_df[i].z], 1 .. n)]] >>
             \o human_info_of_all(df, labels, Tail(cids), params)

\* human_info entries, the centroid carried as the sums of the coordinates
\* (the mean times points).
RECURSIVE human_info_of(_, _, _, _)
human_info_of(df, labels, cids, params) ==
    IF cids = << >> THEN << >>
    ELSE LET cid        == Head(cids)
             cluster_df == rows_of(df, labels, cid, 1)
             n          == Len(cluster_df)
         IN  (IF cluster_label(df, labels, cid, params) = "Human"
              THEN << [id |-> cid, points |-> n,
                       centroid_sum |->
                           [x |-> SumOver([i \in 1 .. n |-> cluster_df[i].x], 1 .. n),
                            y |-> SumOver([i \in 1 .. n |-> cluster_df[i].y], 1 .. n),
                            z |-> SumOver([i \in 1 .. n |-> cluster_df[i].z], 1 .. n)]] >>
              ELSE << >>)
             \o human_info_of(df, labels, Tail(cids), params)

\* The label column after the loop over cids: each pass sets the label of
\* the rows of one cluster (df.loc[df['cluster_id'] == cid, 'label'] = ...).
RECURSIVE assign_labels(_, _, _, _, _)
assign_labels(df, labels, cids, params, col) ==
    IF cids = << >> THEN col
    ELSE assign_labels(df, labels, Tail(cids), params,
             [i \in 1 .. Len(df) |->
                 IF labels[i] = Head(cids)
                 THEN cluster_label(df, labels, Head(cids), params)
                 ELSE col[i]])

\* The rows, every column kept, with the columns cluster_id and label set
\* (df['label'] = 'Clutter', then the loop), and human_info.
labeled(df, labels, params) ==
    CHOOSE out \in
        { [called |-> TRUE, raised |-> FALSE,
           df |-> [i \in 1 .. Len(df) |->
                     [cluster_id |-> labels[i], label |-> col[i]] @@ df[i]],
           human_info |->
               human_info_of(df, labels, unique_clusters(labels, 1, {}), params)] :
          col \in {assign_labels(df, labels, unique_clusters(labels, 1, {}), params,
                                 [i \in 1 .. Len(df) |-> "Clutter"])} } : TRUE

\* Mutant: rows whose snr is under 5 are relabeled Clutter.
process_snr_gate(df, params) ==
    IF df = << >>
    THEN [called |-> TRUE, raised |-> FALSE, df |-> df, human_info |-> << >>]
    ELSE LET out == CHOOSE o \in
                        {labeled(df, labels, params) :
                            labels \in {dbscan_labels(df, params.eps, params.min_samples)}} : TRUE
         IN  [out EXCEPT !.df =
                 [i \in 1 .. Len(df) |->
                     IF "snr" \in DOMAIN df[i] /\ df[i].snr < 5
                     THEN [out.df[i] EXCEPT !.label = "Clutter"]
                     ELSE out.df[i]]]

\* Mutant: no "if df.empty" guard; DBSCAN.fit raises ValueError on no samples.
process_unguarded(df, params) ==
    IF df = << >>
    THEN [called |-> TRUE, raised |-> TRUE, df |-> << >>, human_info |-> << >>]
    ELSE CHOOSE out \in
             {labeled(df, labels, params) :
                 labels \in {dbscan_labels(df, params.eps, params.min_samples)}} : TRUE

\* process(df): the labeled DataFrame and human_info.
process(df, params) ==
    IF df = << >>
    THEN [called |-> TRUE, raised |-> FALSE, df |-> df, human_info |-> << >>]
    ELSE CHOOSE out \in
             {labeled(df, labels, params) :
                 labels \in {dbscan_labels(df, params.eps, params.min_samples)}} : TRUE

(***************************************************************************)
(* Bounds of the model.                                                    *)
(***************************************************************************)
\* queue_max of the collector under test
QueueMax == 2
\* largest max_items passed to get_latest
MaxItems == 2
\* number of serial handles the environment lets the collector open
MaxOpens == 3

(***************************************************************************)
(* State.                                                                  *)
(***************************************************************************)
VARIABLES
    variant,      \* "NEW" (collecter.py) or "OLD" (collector.py)
    sid,          \* which of Streams the device sends
    faults,       \* whether the serial link may fail (open or I/O error)
    config_same,  \* OLD: config_port is data_port (config_port not given)
    wire,         \* bytes the device has still to deliver
    buffer,       \* self._buffer
    data_q,       \* self._data_q
    stop_event,   \* self._stop_event.is_set()
    ser_data,     \* self._ser_data: 0 for None, else the handle's number
    ser_config,   \* self._ser_config (OLD), likewise
    open_handles, \* the handles that are open
    rpc,          \* self._thread: "none", "dead", or where the reader is
    cpc,          \* where the consumer is: "idle", or inside stop()
    opened,       \* number of serial.Serial(...) that succeeded
    spawned,      \* number of reader threads started
    extracted,    \* packets sliced off the buffer, in order
    offered,      \* objects _process_buffer tried to queue, in order
    drained,      \* entries get_latest has returned, in order
    last_call,    \* the last get_latest: max_items, items returned, queue before and after
    parse_raised, \* whether a _parse_packet call has raised
    stop_called,  \* whether the consumer has called stop()
    io_failed,    \* whether the reader thread's SerialException handler has run
    det_batch,    \* the DataFrame given to HumanDetector.process
    det_params,   \* the detector's parameters
    det_out,      \* what process returned (NotCalled before the call)
    det_batch2,   \* the DataFrame given to a second call of process
    det_out2,     \* what the second call returned
    parse_in,     \* the frame given to _parse_packet, as its header fields and records
    parse_out,    \* what _parse_packet returned (NotParsed before the call)
    parse_out2,   \* what it returned for the frame without its unknown-type records
    stale,        \* leading bytes of self._buffer read before the latest start()
    stale_frame,  \* whether a packet holding such bytes has been sliced off
    last_open     \* the latest start() that went on to open the ports: whether it
                  \* raised, and the handles opened and threads spawned before it

vars == << variant, sid, faults, config_same, wire, buffer, data_q, stop_event,
           ser_data, ser_config, open_handles, rpc, cpc, opened, spawned,
           extracted, offered, drained, last_call, parse_raised, stop_called,
           io_failed, det_batch, det_params, det_out, det_batch2, det_out2,
           parse_in, parse_out, parse_out2, stale, stale_frame, last_open >>

input_vars  == << variant, sid, faults, config_same >>
serial_vars == << ser_data, ser_config, open_handles, opened >>
queue_vars  == << data_q, offered, drained, last_call >>
frame_vars  == << buffer, extracted, parse_raised >>
det_vars    == << det_batch, det_params, det_out, det_batch2, det_out2 >>
parse_vars  == << parse_in, parse_out, parse_out2 >>
origin_vars == << stale, stale_frame >>

\* running(): self._thread is not None and self._thread.is_alive()
running == rpc \notin {"none", "dead"}

\* SerialCollector.__init__
Constructed ==
    /\ wire = Concat(AllStreams[sid])
    /\ buffer = << >>
    /\ data_q = << >>
    /\ stop_event = FALSE
    /\ ser_data = 0
    /\ ser_config = 0
    /\ open_handles = {}
    /\ rpc = "none"
    /\ cpc = "idle"
    /\ opened = 0
    /\ spawned = 0
    /\ extracted = << >>
    /\ offered = << >>
    /\ drained = << >>
    /\ last_call = [max_items |-> 0, before |-> << >>, items |-> << >>,
                    after |-> << >>]
    /\ parse_raised = FALSE
    /\ stop_called = FALSE
    /\ io_failed = FALSE
    /\ stale = 0
    /\ stale_frame = FALSE
    /\ last_open = [raised |-> FALSE, opened |-> 0, spawned |-> 0]

NotCalled == [called |-> FALSE, raised |-> FALSE, df |-> << >>, human_info |-> << >>]

\* A detector nothing has been given to.
DetectorUnused ==
    /\ det_batch = << >>
    /\ det_params = [eps |-> 1, min_samples |-> 2, min_points_human |-> 2,
                     max_human_width |-> 1, min_human_height |-> 0,
                     max_human_height |-> 2]
    /\ det_out = NotCalled
    /\ det_batch2 = << >>
    /\ det_out2 = NotCalled

NotParsed ==
    [called |-> FALSE, raised |-> FALSE, objs |-> << >>, points |-> << >>,
     side_info |-> << >>, records |-> << >>]

\* A parser nothing has been given to.
ParserUnused ==
    /\ parse_in = [header_len |-> MinHeaderOld, num_obj |-> 0, num_tlvs |-> 0,
                   recs |-> << >>]
    /\ parse_out = NotParsed
    /\ parse_out2 = NotParsed

Init ==
    /\ variant \in {"NEW", "OLD"}
    /\ sid \in 1 .. Len(Streams)
    /\ faults = FALSE
    /\ config_same = TRUE
    /\ Constructed
    /\ DetectorUnused
    /\ ParserUnused

(***************************************************************************)
(* start()                                                                 *)
(***************************************************************************)
\* The ports open.  NEW opens the data port; OLD opens the config port and
\* then the data port, or shares the handle when the two are the same port.
StartOpened ==
    LET two == variant = "OLD" /\ ~config_same
        h1  == opened + 1
        h2  == IF two THEN opened + 2 ELSE opened + 1
    IN  /\ ser_config' = IF variant = "OLD" THEN h1 ELSE ser_config
        /\ ser_data' = h2
        /\ open_handles' = open_handles \cup {h1, h2}
        /\ opened' = h2
        /\ stop_event' = FALSE
        /\ rpc' = "loop"
        /\ spawned' = spawned + 1
        /\ io_failed' = FALSE
        /\ stale' = Len(buffer)
        /\ last_open' = [raised |-> FALSE, opened |-> opened, spawned |-> spawned]

Start ==
    /\ cpc = "idle"
    /\ IF running
       THEN UNCHANGED << serial_vars, stop_event, rpc, spawned, io_failed, stale,
                         last_open >>
       ELSE /\ opened + (IF variant = "OLD" /\ ~config_same THEN 2 ELSE 1) <= MaxOpens
            /\ StartOpened
    /\ UNCHANGED << input_vars, wire, queue_vars, frame_vars, cpc, stop_called,
                    stale_frame, det_vars, parse_vars >>

(***************************************************************************)
(* _read_loop                                                              *)
(***************************************************************************)
\* while not self._stop_event.is_set()
LoopTest ==
    /\ rpc = "loop"
    /\ rpc' = IF stop_event THEN "dead" ELSE "io"
    /\ UNCHANGED << input_vars, last_open, wire, queue_vars, frame_vars, serial_vars,
                    stop_event, cpc, spawned, io_failed, stop_called, det_vars, parse_vars, origin_vars >>

\* NEW reads in_waiting bytes, OLD up to 4096.
ReadMaxOld == 4096
ChunkSizes == 1 .. (IF variant = "OLD" THEN Min(Len(wire), ReadMaxOld) ELSE Len(wire))

\* The read returns n bytes: the buffer is extended and _process_buffer entered.
ReaderRead(n) ==
    /\ rpc = "io"
    /\ ser_data \in open_handles
    /\ buffer' = buffer \o SubSeq(wire, 1, n)
    /\ wire' = SubSeq(wire, n + 1, Len(wire))
    /\ rpc' = "process"
    /\ UNCHANGED << input_vars, last_open, queue_vars, extracted, parse_raised, serial_vars,
                    stop_event, cpc, spawned, io_failed, stop_called, det_vars, parse_vars, origin_vars >>

\* Nothing to read: in_waiting is 0 (NEW, then sleep), or read times out (OLD).
ReaderIdle ==
    /\ rpc = "io"
    /\ ser_data \in open_handles
    /\ rpc' = "loop"
    /\ UNCHANGED << input_vars, last_open, wire, queue_vars, frame_vars, serial_vars,
                    stop_event, cpc, spawned, io_failed, stop_called, det_vars, parse_vars, origin_vars >>

\* One iteration of _process_buffer's loop, with the queue filled under the lock.
put_all(q, objs, next_id) ==
    IF variant = "NEW" THEN put_all_new(q, objs, next_id, QueueMax)
    ELSE put_all_old(q, objs, next_id, QueueMax)

process_buffer_iter(buf) ==
    IF variant = "NEW" THEN process_buffer_iter_new(buf)
    ELSE process_buffer_iter_old(buf)

\* Whether the packet r slices off buf holds one of buf's first n bytes: the
\* packet is the end of what the iteration removes from the front of buf.
stale_in(buf, r, n) ==
    /\ r.packets # << >>
    /\ r.packets[1] # << >>
    /\ n > Len(buf) - Len(r.buffer) - Len(r.packets[1])

ProcessStep ==
    /\ rpc = "process"
    /\ LET r == process_buffer_iter(buffer)
       IN  /\ buffer' = r.buffer
           /\ extracted' = extracted \o r.packets
           /\ parse_raised' = (parse_raised \/ r.raised)
           /\ data_q' = put_all(data_q, r.objs, Len(offered) + 1)
           /\ offered' = offered \o r.objs
           /\ rpc' = IF r.done THEN "loop" ELSE "process"
           /\ stale' = stale - Min(stale, Len(buffer) - Len(r.buffer))
           /\ stale_frame' = (stale_frame \/ stale_in(buffer, r, stale))
    /\ UNCHANGED << input_vars, last_open, wire, drained, last_call, serial_vars,
                    stop_event, cpc, spawned, io_failed, stop_called, det_vars,
                    parse_vars >>

(***************************************************************************)
(* get_latest(max_items)                                                   *)
(***************************************************************************)
GetLatest(max_items) ==
    /\ cpc = "idle"
    /\ LET r == drain(data_q, << >>, max_items)
       IN  /\ data_q' = r.q
           /\ drained' = drained \o r.items
           /\ last_call' = [max_items |-> max_items, before |-> data_q,
                            items |-> r.items, after |-> r.q]
    /\ UNCHANGED << input_vars, last_open, wire, offered, frame_vars, serial_vars,
                    stop_event, rpc, cpc, spawned, io_failed, stop_called, det_vars, parse_vars, origin_vars >>

(***************************************************************************)
(* Spec: one collector is started and its reader receives the stream in    *)
(* every chunking.                                                         *)
(***************************************************************************)
Next ==
    \/ Start
    \/ LoopTest
    \/ \E n \in ChunkSizes : ReaderRead(n)
    \/ ReaderIdle
    \/ ProcessStep

Spec == Init /\ [][Next]_vars

(***************************************************************************)
(* SpecQueue: the reader fills the queue while the consumer drains it.     *)
(* Reads end on multiples of QueueChunk bytes or at the end of the stream. *)
(***************************************************************************)
QueueChunk == 32
QueueStreams == {2, 5, 6}
QueueChunkSizes == {n \in ChunkSizes : n % QueueChunk = 0 \/ n = Len(wire)}

InitQueue ==
    /\ variant \in {"NEW", "OLD"}
    /\ sid \in QueueStreams
    /\ faults = FALSE
    /\ config_same = TRUE
    /\ Constructed
    /\ DetectorUnused
    /\ ParserUnused

NextQueue ==
    \/ Start
    \/ LoopTest
    \/ \E n \in QueueChunkSizes : ReaderRead(n)
    \/ ReaderIdle
    \/ ProcessStep
    \/ \E m \in 0 .. MaxItems : GetLatest(m)

SpecQueue == InitQueue /\ [][NextQueue]_vars

(***************************************************************************)
(* SpecNoise: the reader receives the long noise, in reads that end on     *)
(* multiples of NoiseChunk bytes or at the end of the stream.              *)
(***************************************************************************)
NoiseChunk == 60
NoiseChunkSizes == {n \in ChunkSizes : n % NoiseChunk = 0 \/ n = Len(wire)}

InitNoise ==
    /\ variant \in {"NEW", "OLD"}
    /\ sid = Len(Streams) + 1
    /\ faults = FALSE
    /\ config_same = TRUE
    /\ Constructed
    /\ DetectorUnused
    /\ ParserUnused

NextNoise ==
    \/ Start
    \/ LoopTest
    \/ \E n \in NoiseChunkSizes : ReaderRead(n)
    \/ ReaderIdle
    \/ ProcessStep

SpecNoise == InitNoise /\ [][NextNoise]_vars

(***************************************************************************)
(* SpecTrim: the OLD reader receives the long noise and then a frame, in   *)
(* reads that end on multiples of NoiseChunk bytes, inside the frame's     *)
(* marker, or at the end of the stream.                                    *)
(***************************************************************************)
\* What is left on the wire when a read has ended j bytes into the marker
\* of the last frame, 1 <= j <= 7.
SplitMarkerLeft == {Len(FrameOne) - j : j \in 1 .. (Len(MAGIC_WORD) - 1)}

TrimChunkSizes ==
    {n \in ChunkSizes :
        n % NoiseChunk = 0 \/ n = Len(wire) \/ Len(wire) - n \in SplitMarkerLeft}

InitTrim ==
    /\ variant = "OLD"
    /\ sid = Len(Streams) + 2
    /\ faults = FALSE
    /\ config_same = TRUE
    /\ Constructed
    /\ DetectorUnused
    /\ ParserUnused

NextTrim ==
    \/ Start
    \/ LoopTest
    \/ \E n \in TrimChunkSizes : ReaderRead(n)
    \/ ReaderIdle
    \/ ProcessStep

SpecTrim == InitTrim /\ [][NextTrim]_vars

(***************************************************************************)
(* SpecTerm: the reader receives the streams of corrupt lengths, in reads   *)
(* that end on multiples of TermChunk bytes or at the end of the stream.   *)
(* SpecTermFair: moreover the reader thread, once inside _process_buffer,  *)
(* keeps running.                                                          *)
(***************************************************************************)
TermChunk == 4
TermChunkSizes == {n \in ChunkSizes : n % TermChunk = 0 \/ n = Len(wire)}

InitTerm ==
    /\ variant \in {"NEW", "OLD"}
    /\ sid \in (Len(AllStreams) - Len(CorruptStreams) + 1) .. Len(AllStreams)
    /\ faults = FALSE
    /\ config_same = TRUE
    /\ Constructed
    /\ DetectorUnused
    /\ ParserUnused

NextTerm ==
    \/ Start
    \/ LoopTest
    \/ \E n \in TermChunkSizes : ReaderRead(n)
    \/ ReaderIdle
    \/ ProcessStep

SpecTerm == InitTerm /\ [][NextTerm]_vars

SpecTermFair == SpecTerm /\ WF_vars(ProcessStep)

(***************************************************************************)
(* SpecLife: start(), stop() and the reader thread in every interleaving,  *)
(* on a serial link that may fail.                                         *)
(***************************************************************************)
\* Handles stop() closes: self._ser_data if open, then (OLD) self._ser_config
\* if open and not the same object.
\* Mutant: stop() closes the data handle only.
stop_closes_data_only(open, data, config) ==
    IF data \in open THEN {data} ELSE {}

\* The same, open being the handles that are open when stop() is entered.
stop_closes(open, data, config) ==
    (IF data \in open THEN {data} ELSE {})
        \cup (IF variant = "OLD" /\ config \in open /\ config # data
              THEN {config} ELSE {})

closed_by_stop(data, config) == stop_closes(open_handles, data, config)

\* start() when a port cannot be opened.  NEW raises with nothing changed.
\* OLD calls self.stop() first: the stop signal is set, the dead or absent
\* thread is joined at once, and the open handles are closed; when it is the
\* data port that fails, self._ser_config already is the new config handle,
\* open, and self._ser_data is what it was.
StartFail(port) ==
    /\ cpc = "idle"
    /\ ~running
    /\ faults
    /\ IF variant = "NEW" THEN port = "data"
       ELSE IF config_same THEN port = "config"
       ELSE port \in {"config", "data"}
    /\ IF variant = "NEW"
       THEN UNCHANGED << serial_vars, stop_event >>
       ELSE IF port = "config"
       THEN /\ stop_event' = TRUE
            /\ open_handles' = open_handles \ closed_by_stop(ser_data, ser_config)
            /\ UNCHANGED << ser_data, ser_config, opened >>
       ELSE /\ opened + 1 <= MaxOpens
            /\ stop_event' = TRUE
            /\ ser_config' = opened + 1
            /\ opened' = opened + 1
            /\ open_handles' =
                   (open_handles \cup {opened + 1})
                       \ stop_closes(open_handles \cup {opened + 1}, ser_data, opened + 1)
            /\ UNCHANGED ser_data
    /\ last_open' = [raised |-> TRUE, opened |-> opened, spawned |-> spawned]
    /\ UNCHANGED << input_vars, wire, queue_vars, frame_vars, rpc, cpc, spawned, io_failed,
                    stop_called, det_vars, parse_vars, origin_vars >>

\* Mutant: the SerialException handler logs the error and leaves the stop
\* signal alone, so the loop tries again.
ReaderError_retry ==
    /\ rpc = "io"
    /\ faults \/ ser_data \notin open_handles
    /\ io_failed' = TRUE
    /\ rpc' = "loop"
    /\ UNCHANGED << input_vars, last_open, wire, queue_vars, frame_vars, serial_vars,
                    stop_event, cpc, spawned, stop_called, det_vars, parse_vars, origin_vars >>

\* An access to the handle raises serial.SerialException: the link failed, or
\* the handle has been closed.  The handler sets the stop signal.
ReaderError ==
    /\ rpc = "io"
    /\ faults \/ ser_data \notin open_handles
    /\ stop_event' = TRUE
    /\ io_failed' = TRUE
    /\ rpc' = "loop"
    /\ UNCHANGED << input_vars, last_open, wire, queue_vars, frame_vars, serial_vars,
                    cpc, spawned, stop_called, det_vars, parse_vars, origin_vars >>

\* stop(): self._stop_event.set()
StopSignal ==
    /\ cpc = "idle"
    /\ stop_event' = TRUE
    /\ cpc' = "join"
    /\ stop_called' = TRUE
    /\ UNCHANGED << input_vars, last_open, wire, queue_vars, frame_vars, serial_vars,
                    rpc, spawned, io_failed, det_vars, parse_vars, origin_vars >>

\* self._thread.join(timeout=1.0) returns because the thread has ended (or
\* there is no thread).
StopJoinExited ==
    /\ cpc = "join"
    /\ ~running
    /\ cpc' = "close"
    /\ UNCHANGED << input_vars, last_open, wire, queue_vars, frame_vars, serial_vars,
                    stop_event, rpc, spawned, io_failed, stop_called, det_vars, parse_vars, origin_vars >>

\* join returns because the second has passed while the thread is alive.
StopJoinTimeout ==
    /\ cpc = "join"
    /\ running
    /\ cpc' = "close"
    /\ UNCHANGED << input_vars, last_open, wire, queue_vars, frame_vars, serial_vars,
                    stop_event, rpc, spawned, io_failed, stop_called, det_vars, parse_vars, origin_vars >>

\* The handles are closed and stop() returns.
StopClose ==
    /\ cpc = "close"
    /\ open_handles' = open_handles \ closed_by_stop(ser_data, ser_config)
    /\ cpc' = "idle"
    /\ UNCHANGED << input_vars, last_open, wire, queue_vars, frame_vars, ser_data,
                    ser_config, opened, stop_event, rpc, spawned, io_failed, stop_called, det_vars, parse_vars, origin_vars >>

LifeStreams == {1}

InitLife ==
    /\ variant \in {"NEW", "OLD"}
    /\ sid \in LifeStreams
    /\ faults = TRUE
    /\ config_same \in BOOLEAN
    /\ variant = "NEW" => config_same
    /\ Constructed
    /\ DetectorUnused
    /\ ParserUnused

NextLife ==
    \/ Start
    \/ \E port \in {"config", "data"} : StartFail(port)
    \/ StopSignal
    \/ StopJoinExited
    \/ StopJoinTimeout
    \/ StopClose
    \/ LoopTest
    \/ \E n \in QueueChunkSizes : ReaderRead(n)
    \/ ReaderIdle
    \/ ReaderError
    \/ ProcessStep

SpecLife == InitLife /\ [][NextLife]_vars

(***************************************************************************)
(* Life-cycle claims (SpecLife).                                           *)
(***************************************************************************)
\* Serial handles one start() opens.
PortsPerStart == IF variant = "OLD" /\ ~config_same THEN 2 ELSE 1

\* C4: as long as stop() has not been called, whatever start() calls were
\* made, at most one reader thread has been spawned and no more serial
\* handles are open than one start() opens.
C4_StartOnce ==
    ~stop_called =>
        /\ spawned <= 1
        /\ Cardinality(open_handles) <= PortsPerStart

\* C5: whenever the reader thread is in its loop and about to access the
\* handle (in_waiting, read), the handle is open: stop() has not closed it.
C5_NoCloseWhileReading == rpc = "io" => ser_data \in open_handles

\* SpecLifeFair: the reader thread keeps testing its loop condition and
\* accessing the port, and a stop() under way runs to its end; the consumer is
\* not obliged to call anything.
SpecLifeFair ==
    /\ SpecLife
    /\ WF_vars(LoopTest)
    /\ WF_vars((\E n \in QueueChunkSizes : ReaderRead(n)) \/ ReaderIdle \/ ReaderError)
    /\ WF_vars(StopJoinExited \/ StopJoinTimeout)
    /\ WF_vars(StopClose)

\* A call of start(), successful or not.
StartStep == Start \/ \E port \in {"config", "data"} : StartFail(port)

\* C11: once the reader's SerialException handler has run, the reader loop
\* exits (running() becomes false); after that running() turns true again, a
\* port is opened or a thread is spawned only in a step of start().
C11_ErrorStopsReader ==
    /\ (io_failed /\ running) ~> (io_failed /\ ~running)
    /\ [][(io_failed /\ ~running) =>
             ((running' \/ opened' # opened \/ spawned' # spawned) => StartStep)]_vars

\* The reader has ended on an I/O error, stop() never called.
C11_Witness == io_failed /\ rpc = "dead" /\ ~stop_called

\* C12: a handle that is open when stop() is called is eventually closed, and
\* so is a handle that is open when the reader loop has ended on an I/O error.
C12_HandlesReleased ==
    \A h \in 1 .. MaxOpens :
        /\ (h \in open_handles /\ cpc = "join") ~> (h \notin open_handles)
        /\ (h \in open_handles /\ io_failed /\ rpc = "dead") ~> (h \notin open_handles)

\* C28: at most one serial handle opened by the collector (NEW) is open at
\* any time, whatever start(), stop() and reader failures have happened:
\* start() does not put a new handle in self._ser_data while the one before
\* is open.
C28_OneHandleOpen ==
    variant = "NEW" =>
        /\ Cardinality(open_handles) <= 1
        /\ open_handles \subseteq {ser_data}

\* C29: when start() is called after stop() has returned, and returns
\* without raising, the reader thread is alive, the stop signal is clear and
\* the data handle is open; in particular start() does not return as an
\* already-running no-op on a reader that stop() has signalled to stop and
\* whose handle stop() has closed.
\* (A start() that finds running() true returns with the state as it is, so
\* its outcome is the state it is called in: one where stop() has returned.)
C29_RestartGivesLiveReader ==
    /\ [][(Start /\ stop_called) =>
             (running' /\ ~stop_event' /\ ser_data' \in open_handles')]_vars
    /\ []((cpc = "idle" /\ stop_called /\ running /\ ~io_failed) =>
             (~stop_event /\ ser_data \in open_handles))

\* C31: after a start() that raised because a port could not be opened, the
\* collector is not running, no reader thread has been created by that call,
\* and no handle opened during that call is open (OLD: the config handle
\* opened before the data port failed has been closed).
C31_FailedStartLeavesNothing ==
    last_open.raised =>
        /\ ~running
        /\ spawned = last_open.spawned
        /\ \A h \in (last_open.opened + 1) .. opened : h \notin open_handles

\* OLD with two ports: the config port opened, the data port failed, and
\* the config handle of that call is closed.
C31_Witness ==
    /\ variant = "OLD"
    /\ ~config_same
    /\ last_open.raised
    /\ opened = last_open.opened + 1
    /\ ser_config = opened
    /\ ser_config \notin open_handles

\* C30: a packet sliced off the buffer holds no byte that was read before
\* the latest start(): what an earlier run left in self._buffer is never
\* joined with bytes of the new run into a frame.
C30_NoStaleBytesInFrame == ~stale_frame

(***************************************************************************)
(* SpecDetect: HumanDetector.process on every batch of up to MaxBatch      *)
(* points of a small grid, under several parameter settings.               *)
(***************************************************************************)
MaxBatch == 4

\* A column of three points, two points beside it, one on each horizontal axis.
Positions ==
    { << 0, 0, 0 >>, << 0, 0, 1 >>, << 0, 0, 2 >>, << 1, 0, 1 >>, << 0, 1, 1 >> }

\* Velocities of the rows, by row number.
VelocityProfiles == { << 0, 0, 0, 0, 0 >>, << 1, 1, 1, 1, 1 >>, << -2, 1, 2, 1, -2 >> }

ParamSets ==
    { [eps |-> 1, min_samples |-> ms, min_points_human |-> mp,
       max_human_width |-> 1, min_human_height |-> 0, max_human_height |-> 2] :
         ms \in {2, 3}, mp \in {2, 4} }

Batches ==
    UNION { { [i \in 1 .. n |->
                 [x |-> ps[i][1], y |-> ps[i][2], z |-> ps[i][3], velocity |-> vp[i]]] :
              ps \in [1 .. n -> Positions], vp \in VelocityProfiles } :
            n \in 0 .. MaxBatch }

InitDetect ==
    /\ variant = "NEW"
    /\ sid = 1
    /\ faults = FALSE
    /\ config_same = TRUE
    /\ Constructed
    /\ det_batch \in Batches
    /\ det_params \in ParamSets
    /\ det_out = NotCalled
    /\ det_batch2 = << >>
    /\ det_out2 = NotCalled
    /\ ParserUnused

Process ==
    /\ ~det_out.called
    /\ det_out' = process(det_batch, det_params)
    /\ UNCHANGED << input_vars, last_open, wire, queue_vars, frame_vars, serial_vars,
                    stop_event, rpc, cpc, spawned, io_failed, stop_called, det_batch,
                    det_params, det_batch2, det_out2, parse_vars, origin_vars >>

NextDetect == Process

SpecDetect == InitDetect /\ [][NextDetect]_vars

(***************************************************************************)
(* SpecRepeat: one detector is given a batch of up to MaxRepeat points and *)
(* then a second batch with the same positions and velocities in the same  *)
(* order, whose snr and timestamp columns may differ.                      *)
(***************************************************************************)
MaxRepeat == 3

\* snr (tenths) and timestamp of the rows, by row number
AuxProfiles ==
    { [snr |-> << 12, 12, 12, 12, 12 >>, timestamp |-> << 1, 1, 2, 2, 3 >>],
      [snr |-> << 0, 30, -4, 12, 7 >>, timestamp |-> << 5, 6, 7, 8, 9 >>] }

FirstAux == [snr |-> << 12, 12, 12, 12, 12 >>, timestamp |-> << 1, 1, 2, 2, 3 >>]

\* pd.DataFrame([vars(p) for p in new_points]): the rows with their other columns
with_columns(df, aux) ==
    [i \in 1 .. Len(df) |->
        df[i] @@ [snr |-> aux.snr[i], timestamp |-> aux.timestamp[i]]]

InitRepeat ==
    /\ variant = "NEW"
    /\ sid = 1
    /\ faults = FALSE
    /\ config_same = TRUE
    /\ Constructed
    /\ det_params \in ParamSets
    /\ \E b \in {c \in Batches : Len(c) <= MaxRepeat}, aux \in AuxProfiles :
          /\ det_batch = with_columns(b, FirstAux)
          /\ det_batch2 = with_columns(b, aux)
    /\ det_out = NotCalled
    /\ det_out2 = NotCalled
    /\ ParserUnused

\* The second call of process on the same detector.
ProcessAgain ==
    /\ det_out.called
    /\ ~det_out2.called
    /\ det_out2' = process(det_batch2, det_params)
    /\ UNCHANGED << input_vars, last_open, wire, queue_vars, frame_vars, serial_vars,
                    stop_event, rpc, cpc, spawned, io_failed, stop_called, det_batch,
                    det_params, det_out, det_batch2, parse_vars, origin_vars >>

NextRepeat == Process \/ ProcessAgain

SpecRepeat == InitRepeat /\ [][NextRepeat]_vars

(***************************************************************************)
(* SpecParse: _parse_packet on every frame of up to MaxRecs TLV records    *)
(* from a small catalogue, and then on the same frame without its records  *)
(* of unknown type.                                                        *)
(***************************************************************************)
MaxRecs == 2

\* A TLV record: its type, the length its header declares, its payload.
Rec(type, payload) == [type |-> type, length |-> Len(payload), payload |-> payload]

\* A type-1 record that declares 64 bytes of payload and brings 16.
RecOverrun == [type |-> 1, length |-> 64, payload |-> PointA]

RecordKinds ==
    { Rec(1, PointA), Rec(1, PointB \o PointC), Rec(1, PointC \o << 1, 2, 3 >>),
      Rec(7, SideA), Rec(7, SideA \o SideB), Rec(9, MAGIC_WORD), Rec(9, << >>),
      RecOverrun }

\* Lists of records; a record that declares more than it brings comes last.
RecordLists ==
    { rs \in UNION { [1 .. n -> RecordKinds] : n \in 0 .. MaxRecs } :
        \A i \in 1 .. (Len(rs) - 1) : rs[i].length = Len(rs[i].payload) }

\* Values of the header's detected-object count.
ObjectCounts == {0, 1, 3}

\* Header lengths a frame declares: the 40 bytes of the header, or 4 more.
HeaderLens == {MinHeaderOld, MinHeaderOld + 4}

RECURSIVE RecsBytes(_)
RecsBytes(rs) ==
    IF rs = << >> THEN << >>
    ELSE LE32(Head(rs).type) \o LE32(Head(rs).length) \o Head(rs).payload
         \o RecsBytes(Tail(rs))

\* The bytes of the frame: header, padding up to the header length, records.
frame_of(in) ==
    LET body == Zeros(in.header_len - MinHeaderOld) \o RecsBytes(in.recs)
    IN  Header(in.header_len, MinHeaderOld + Len(body), in.num_obj, in.num_tlvs)
            \o body

IsKnownType(rec) == rec.type \in {1, 7}

\* The frame without its records of unknown type, the header's TLV count
\* lowered by the number of records taken out from among those it counts.
strip_unknown(in) ==
    [in EXCEPT
        !.recs = SelectSeq(in.recs, IsKnownType),
        !.num_tlvs = in.num_tlvs
            - Cardinality({i \in 1 .. Min(in.num_tlvs, Len(in.recs)) :
                              ~IsKnownType(in.recs[i])})]

\* objs = self._parse_packet(packet, header_len) / self._parse_packet(packet)
parse_packet(data, header_len) ==
    IF variant = "NEW" THEN parse_packet_new(data, header_len)
    ELSE parse_packet_old(data)

InitParse ==
    /\ variant \in {"NEW", "OLD"}
    /\ sid = 1
    /\ faults = FALSE
    /\ config_same = TRUE
    /\ Constructed
    /\ DetectorUnused
    /\ parse_in \in
          { [header_len |-> h, num_obj |-> n, num_tlvs |-> k, recs |-> rs] :
              h \in HeaderLens, n \in ObjectCounts, k \in 0 .. MaxRecs,
              rs \in RecordLists }
    \* OLD takes the header for 40 bytes long
    /\ variant = "OLD" => parse_in.header_len = MinHeaderOld
    /\ parse_out = NotParsed
    /\ parse_out2 = NotParsed

Parse ==
    /\ ~parse_out.called
    /\ parse_out' = [called |-> TRUE]
                        @@ parse_packet(frame_of(parse_in), parse_in.header_len)
                        @@ NotParsed
    /\ UNCHANGED << input_vars, last_open, wire, queue_vars, frame_vars, serial_vars,
                    stop_event, rpc, cpc, spawned, io_failed, stop_called, det_vars,
                    parse_in, parse_out2, origin_vars >>

ParseStripped ==
    /\ parse_out.called
    /\ ~parse_out2.called
    /\ parse_out2' = [called |-> TRUE]
                         @@ parse_packet(frame_of(strip_unknown(parse_in)),
                                         parse_in.header_len)
                         @@ NotParsed
    /\ UNCHANGED << input_vars, last_open, wire, queue_vars, frame_vars, serial_vars,
                    stop_event, rpc, cpc, spawned, io_failed, stop_called, det_vars,
                    parse_in, parse_out, origin_vars >>

NextParse == Parse \/ ParseStripped

SpecParse == InitParse /\ [][NextParse]_vars

(***************************************************************************)
(* Parser claims (SpecParse).                                              *)
(***************************************************************************)
\* The frame parsed and the header fields _parse_packet reads from it.
parsed_frame == frame_of(parse_in)
NumDetectedObj == U32(parsed_frame, 28)
NumTlvs == U32(parsed_frame, 32)

\* Where the record after the last one read would begin.
NextRecordOffset ==
    LET rs == parse_out.records
    IN  IF rs = << >> THEN parse_in.header_len
        ELSE rs[Len(rs)].offset + TLV_HEADER_SIZE + rs[Len(rs)].length

\* C21: _parse_packet (NEW) reads its first record at the header-length
\* offset and each further record right after the payload of the one before;
\* it reads at most TLV-count records; the 8-byte header and the declared
\* payload of every record it reads lie inside the frame.
C21_RecordsInsideFrame ==
    (variant = "NEW" /\ parse_out.called /\ ~parse_out.raised) =>
        LET rs == parse_out.records
        IN  /\ Len(rs) <= NumTlvs
            /\ \A i \in 1 .. Len(rs) :
                  /\ rs[i].offset =
                         IF i = 1 THEN parse_in.header_len
                         ELSE rs[i - 1].offset + TLV_HEADER_SIZE + rs[i - 1].length
                  /\ rs[i].type = U32(parsed_frame, rs[i].offset)
                  /\ rs[i].length = U32(parsed_frame, rs[i].offset + 4)
                  /\ rs[i].offset + TLV_HEADER_SIZE + rs[i].length <= Len(parsed_frame)

\* The loop has stopped, with iterations left, before a record whose header
\* is inside the frame and whose declared payload is not.
C21_Witness ==
    /\ variant = "NEW"
    /\ parse_out.called
    /\ parse_out.records # << >>
    /\ Len(parse_out.records) < NumTlvs
    /\ NextRecordOffset + TLV_HEADER_SIZE <= Len(parsed_frame)
    /\ NextRecordOffset + TLV_HEADER_SIZE + U32(parsed_frame, NextRecordOffset + 4)
           > Len(parsed_frame)

\* The point at 16-byte group g (from 0) of the payload of the record at off.
PointAt(off, g) ==
    LET at == off + TLV_HEADER_SIZE + PointSize * g
    IN  [x |-> F32(parsed_frame, at), y |-> F32(parsed_frame, at + 4),
         z |-> F32(parsed_frame, at + 8), v |-> F32(parsed_frame, at + 12)]

\* The points of the type-1 records among rs: of each, the first
\* min(n, floor(L / 16)) groups of its payload.
RECURSIVE PointsOfRecords(_)
PointsOfRecords(rs) ==
    IF rs = << >> THEN << >>
    ELSE (IF Head(rs).type = 1
          THEN [g \in 1 .. Min(NumDetectedObj, Head(rs).length \div PointSize) |->
                   PointAt(Head(rs).offset, g - 1)]
          ELSE << >>)
         \o PointsOfRecords(Tail(rs))

\* C22: from a type-1 record of payload length L in a frame declaring n
\* detected objects, _parse_packet (NEW) decodes min(n, floor(L / 16)) points,
\* the leading 16-byte groups of the payload in their order; the rest of the
\* payload gives nothing.
C22_PointsPerRecord ==
    (variant = "NEW" /\ parse_out.called /\ ~parse_out.raised) =>
        parse_out.points = PointsOfRecords(parse_out.records)

\* One type-1 record holds more whole groups than the header counts objects,
\* one has a payload that is not a multiple of 16 bytes, and points came out.
C22_Witness ==
    /\ variant = "NEW"
    /\ parse_out.called
    /\ parse_out.points # << >>
    /\ \E i, j \in 1 .. Len(parse_out.records) :
          /\ parse_out.records[i].type = 1
          /\ parse_out.records[i].length \div PointSize > NumDetectedObj
          /\ parse_out.records[j].type = 1
          /\ parse_out.records[j].length % PointSize # 0

\* C23: the objects returned are one per decoded point, in point order; the
\* i-th carries the i-th point's x, y, z and velocity and the i-th decoded
\* snr, or snr 0 when there are fewer than i snr values; snr values past the
\* last point give no object.
C23_PositionalPairing ==
    (variant = "NEW" /\ parse_out.called /\ ~parse_out.raised) =>
        /\ Len(parse_out.objs) = Len(parse_out.points)
        /\ \A i \in 1 .. Len(parse_out.objs) :
              /\ parse_out.objs[i].x = parse_out.points[i].x
              /\ parse_out.objs[i].y = parse_out.points[i].y
              /\ parse_out.objs[i].z = parse_out.points[i].z
              /\ parse_out.objs[i].velocity = parse_out.points[i].v
              /\ parse_out.objs[i].snr =
                     IF i <= Len(parse_out.side_info) THEN parse_out.side_info[i]
                     ELSE 0

\* Two points and one snr value: the second object has snr 0.
C23_Witness ==
    /\ variant = "NEW"
    /\ parse_out.called
    /\ Len(parse_out.points) = 2
    /\ Len(parse_out.side_info) = 1
    /\ parse_out.side_info[1] # 0
    /\ Len(parse_out.objs) = 2
    /\ parse_out.objs[2].snr = 0

\* C24: the objects of a frame are those of the same frame with its records
\* of a type other than 1 and 7 taken out: such a record gives no point and
\* no snr value, and the record after it is read where it ends, 8 bytes plus
\* its declared length after its start.
C24_UnknownSkipped ==
    parse_out2.called =>
        /\ parse_out2.objs = parse_out.objs
        /\ parse_out2.points = parse_out.points
        /\ parse_out2.side_info = parse_out.side_info
        /\ \A i \in 1 .. Len(parse_out.records) :
              (~IsKnownType(parse_out.records[i]) /\ i < Len(parse_out.records)) =>
                  parse_out.records[i + 1].offset =
                      parse_out.records[i].offset + TLV_HEADER_SIZE
                          + parse_out.records[i].length

\* A frame whose first record is of unknown type and is followed by points.
C24_Witness ==
    /\ parse_out2.called
    /\ parse_in.recs # << >>
    /\ ~IsKnownType(parse_in.recs[1])
    /\ parse_in.num_tlvs = Len(parse_in.recs)
    /\ parse_out.objs # << >>

(***************************************************************************)
(* Detector claims (SpecDetect).                                           *)
(***************************************************************************)
\* The rows of the output that carry cluster id cid.
Members(cid) == {i \in 1 .. Len(det_out.df) : det_out.df[i].cluster_id = cid}
Extent(S, c) ==
    LET vs == {IF c = "x" THEN det_out.df[i].x
               ELSE IF c = "y" THEN det_out.df[i].y ELSE det_out.df[i].z : i \in S}
    IN  SetMax(vs) - SetMin(vs)

HumanCriteria(cid) ==
    LET S == Members(cid)
    IN  /\ Cardinality(S) >= det_params.min_points_human
        /\ det_params.min_human_height < Extent(S, "z")
        /\ Extent(S, "z") < det_params.max_human_height
        /\ Extent(S, "x") * Extent(S, "x") + Extent(S, "y") * Extent(S, "y")
               <= det_params.max_human_width * det_params.max_human_width

\* C9: a non-noise cluster is labeled Human exactly when it has at least
\* min_points_human members, a z-extent strictly between min_human_height and
\* max_human_height, and a horizontal spread of at most max_human_width.
C9_HumanIffAllThree ==
    \A i \in 1 .. Len(det_out.df) :
        det_out.df[i].cluster_id # -1 =>
            (det_out.df[i].label = "Human" <=> HumanCriteria(det_out.df[i].cluster_id))

\* A cluster with the geometry of a human and too few members, not Human.
C9_Witness ==
    /\ det_out.called
    /\ \E i \in 1 .. Len(det_out.df) :
          LET S == Members(det_out.df[i].cluster_id)
          IN  /\ det_out.df[i].cluster_id # -1
              /\ Cardinality(S) < det_params.min_points_human
              /\ Extent(S, "z") = 1
              /\ Extent(S, "x") = 1 /\ Extent(S, "y") = 0
              /\ det_out.df[i].label # "Human"

\* C10: process on an empty batch returns an empty batch and no summaries.
C10_EmptyBatch ==
    (det_out.called /\ det_batch = << >>) =>
        /\ ~det_out.raised
        /\ det_out.df = << >>
        /\ det_out.human_info = << >>

\* process has been called on the empty batch.
C10_Witness == det_out.called /\ det_batch = << >>

\* The cluster id and label of every row of an output.
LabelsOf(out) ==
    [i \in 1 .. Len(out.df) |->
        [cluster_id |-> out.df[i].cluster_id, label |-> out.df[i].label]]

\* C15 (SpecRepeat): two calls of process on one detector, on batches with the
\* same positions and velocities in the same order, give every row the same
\* cluster id and label and return the same summaries, whatever the snr and
\* timestamp columns hold.
C15_Deterministic ==
    (det_out.called /\ det_out2.called) =>
        /\ LabelsOf(det_out2) = LabelsOf(det_out)
        /\ det_out2.human_info = det_out.human_info
        /\ det_out2.raised = det_out.raised

\* Both calls made, on three rows whose snr and timestamps differ between the
\* calls, with a Human cluster found.
C15_Witness ==
    /\ det_out.called /\ det_out2.called
    /\ Len(det_batch) = 3
    /\ \E i \in 1 .. 3 : det_batch2[i].snr # det_batch[i].snr
    /\ \E i \in 1 .. 3 : det_batch2[i].timestamp # det_batch[i].timestamp
    /\ Len(det_out2.human_info) = 1

\* Sum of |velocity| over the rows S of the output.
AbsVelocitySum(S) == SumOver([i \in 1 .. Len(det_out.df) |-> Abs(det_out.df[i].velocity)], S)

\* C16: a clustered row whose cluster is not Human is labeled Moving when the
\* mean of |velocity| over the cluster is strictly greater than
\* movement_threshold, and Static otherwise.
C16_MovingIffFast ==
    \A i \in 1 .. Len(det_out.df) :
        LET S == Members(det_out.df[i].cluster_id)
        IN  (det_out.df[i].cluster_id # -1 /\ det_out.df[i].label # "Human") =>
                /\ det_out.df[i].label \in {"Moving", "Static"}
                /\ det_out.df[i].label = "Moving" <=>
                       AbsVelocitySum(S) > movement_threshold * Cardinality(S)

\* A cluster whose mean |velocity| equals the threshold, labeled Static.
C16_Witness ==
    /\ det_out.called
    /\ \E i \in 1 .. Len(det_out.df) :
          LET S == Members(det_out.df[i].cluster_id)
          IN  /\ det_out.df[i].cluster_id # -1
              /\ AbsVelocitySum(S) = movement_threshold * Cardinality(S)
              /\ det_out.df[i].label = "Static"

\* The ids of the clusters labeled Human.
HumanClusters ==
    {det_out.df[i].cluster_id : i \in {j \in 1 .. Len(det_out.df) : det_out.df[j].label = "Human"}}

CoordSum(S, c) ==
    SumOver([i \in 1 .. Len(det_out.df) |->
                IF c = "x" THEN det_out.df[i].x
                ELSE IF c = "y" THEN det_out.df[i].y ELSE det_out.df[i].z], S)

\* C17: human_info holds one summary for each cluster labeled Human and no
\* other; a summary carries the cluster's id, its member count, and as
\* centroid the mean of the members' x, y and z (the sums over the count).
C17_OneSummaryPerHuman ==
    LET hi == det_out.human_info
    IN  /\ \A j, k \in 1 .. Len(hi) : hi[j].id = hi[k].id => j = k
        /\ {hi[j].id : j \in 1 .. Len(hi)} = HumanClusters
        /\ \A j \in 1 .. Len(hi) :
               LET S == Members(hi[j].id)
               IN  /\ hi[j].points = Cardinality(S)
                   /\ hi[j].centroid_sum.x = CoordSum(S, "x")
                   /\ hi[j].centroid_sum.y = CoordSum(S, "y")
                   /\ hi[j].centroid_sum.z = CoordSum(S, "z")

\* A Human cluster of three rows off the axis has been summarized.
C17_Witness ==
    /\ det_out.called
    /\ Len(det_out.human_info) = 1
    /\ det_out.human_info[1].points = 3
    /\ det_out.human_info[1].centroid_sum.x = 1
    /\ det_out.human_info[1].centroid_sum.z = 2

\* C25: after process on a non-empty batch every row has one label out of
\* Human, Moving, Static and Clutter; a row is labeled Clutter exactly when
\* its cluster id is -1; rows of one cluster other than -1 have one label.
C25_LabelsPartition ==
    (det_out.called /\ det_batch # << >>) =>
        /\ Len(det_out.df) = Len(det_batch)
        /\ \A i \in 1 .. Len(det_out.df) :
              /\ det_out.df[i].label \in {"Human", "Moving", "Static", "Clutter"}
              /\ det_out.df[i].label = "Clutter" <=> det_out.df[i].cluster_id = -1
        /\ \A i, j \in 1 .. Len(det_out.df) :
              (det_out.df[i].cluster_id = det_out.df[j].cluster_id
                  /\ det_out.df[i].cluster_id # -1) =>
                  det_out.df[i].label = det_out.df[j].label

\* A batch with a noise row labeled Clutter beside a cluster labeled Moving.
C25_Witness ==
    /\ det_out.called
    /\ \E i, j \in 1 .. Len(det_out.df) :
          /\ det_out.df[i].cluster_id = -1
          /\ det_out.df[i].label = "Clutter"
          /\ det_out.df[j].cluster_id # -1
          /\ det_out.df[j].label = "Moving"

(***************************************************************************)
(* Framing claims (Spec).                                                  *)
(***************************************************************************)
stream == Streams[sid]
sent == FramesOf(stream)

\* Every byte has been delivered and _process_buffer has returned.
Quiescent == wire = << >> /\ rpc \in {"loop", "io"}

IsPrefix(a, b) == Len(a) <= Len(b) /\ a = SubSeq(b, 1, Len(a))

\* Offsets (0-based) at which segment k of segs starts and ends.
RECURSIVE SegStart(_, _)
SegStart(segs, k) == IF k = 1 THEN 0 ELSE SegStart(segs, k - 1) + Len(segs[k - 1].bytes)
SegEnd(segs, k) == SegStart(segs, k) + Len(segs[k].bytes)

MarkerOffsets(data) ==
    {i \in 0 .. (Len(data) - Len(MAGIC_WORD)) :
        \A j \in 1 .. Len(MAGIC_WORD) : data[i + j] = MAGIC_WORD[j]}

\* A frame as the claim has it: marker, header length < total length <= 64 KiB,
\* exactly total-length bytes.
WellFormed(f) ==
    /\ Len(f) >= 16
    /\ SubSeq(f, 1, 8) = MAGIC_WORD
    /\ U32(f, 8) < U32(f, 12)
    /\ U32(f, 12) = Len(f)
    /\ Len(f) <= 65536

\* The marker occurs nowhere but inside the frames.
NoiseMarkerFree(segs) ==
    \A i \in MarkerOffsets(Concat(segs)) :
        \E k \in 1 .. Len(segs) :
            /\ segs[k].frame
            /\ SegStart(segs, k) <= i
            /\ i + Len(MAGIC_WORD) <= SegEnd(segs, k)

AllWellFormed(segs) == \A k \in 1 .. Len(segs) : segs[k].frame => WellFormed(segs[k].bytes)

FullHeaders(segs) == \A k \in 1 .. Len(segs) : segs[k].frame => Len(segs[k].bytes) >= 40

\* C1: in a stream of well-formed frames whose noise holds no occurrence of
\* the marker, what has been extracted is at every moment the first frames
\* sent, byte for byte and in order, and once every byte has been delivered
\* and processed it is all of them.  (The claim allows any noise; this is its
\* case of marker-free noise.)
C1_ExactFrames ==
    (AllWellFormed(stream) /\ NoiseMarkerFree(stream)) =>
        /\ IsPrefix(extracted, sent)
        /\ Quiescent => extracted = sent

\* The same with every frame carrying the full 40-byte header: this much of
\* the framing holds in both variants, in every chunking.
ExactFramesFullHeaders ==
    (AllWellFormed(stream) /\ FullHeaders(stream) /\ NoiseMarkerFree(stream)) =>
        /\ IsPrefix(extracted, sent)
        /\ Quiescent => extracted = sent

\* Two frames with noise before, between and after them have been extracted.
ExactFramesReached ==
    /\ Quiescent
    /\ NoiseMarkerFree(stream) /\ AllWellFormed(stream) /\ FullHeaders(stream)
    /\ Len(stream) = 5
    /\ Len(extracted) = 2
    /\ extracted = sent

\* _process_buffer run to its end on a buffer holding the whole of data:
\* the objects it offers to the queue.
RECURSIVE whole_feed(_, _)
whole_feed(buf, objs) ==
    LET r == process_buffer_iter(buf)
    IN  IF r.done THEN objs \o r.objs
        ELSE whole_feed(r.buffer, objs \o r.objs)

SingleFrame == Len(stream) = 1 /\ stream[1].frame /\ WellFormed(stream[1].bytes)

\* C2: one frame fed in any chunks queues the same Detections, in the same
\* order, as the frame fed whole.
C2_ChunkingInvariant ==
    (SingleFrame /\ Quiescent) =>
        LET whole == whole_feed(Concat(stream), << >>)
        IN  /\ offered = whole
            /\ data_q = put_all(<< >>, whole, 1)

\* A frame of three points has arrived in more than two reads.
C2_Witness ==
    /\ SingleFrame /\ Quiescent
    /\ sid = 2
    /\ Len(offered) = 3
    /\ buffer = << >>

\* A marker whose total-length field is over 64 KiB, then one valid frame.
OversizeThenFrame ==
    /\ Len(stream) = 2
    /\ ~stream[1].frame /\ stream[2].frame
    /\ SubSeq(stream[1].bytes, 1, 8) = MAGIC_WORD
    /\ U32(stream[1].bytes, 12) > 65536
    /\ WellFormed(stream[2].bytes)

\* C3: a marker declaring more than 64 KiB yields no frame and does not hold
\* back the valid frame after it.
C3_OversizeRejected ==
    (OversizeThenFrame /\ Quiescent) => extracted = sent

\* A marker whose total-length field is at most its header-length field, then
\* one valid frame.
CorruptLengthThenFrame ==
    /\ Len(stream) = 2
    /\ ~stream[1].frame /\ stream[2].frame
    /\ SubSeq(stream[1].bytes, 1, 8) = MAGIC_WORD
    /\ U32(stream[1].bytes, 12) <= U32(stream[1].bytes, 8)
    /\ WellFormed(stream[2].bytes)

\* C13: a marker whose total length is at most its header length yields no
\* frame and no exception, and the valid frame after it is extracted.
C13_CorruptLengthDropped ==
    CorruptLengthThenFrame =>
        /\ ~parse_raised
        /\ IsPrefix(extracted, sent)
        /\ Quiescent => extracted = sent

\* C14: whenever _process_buffer has returned and the buffer holds no marker,
\* the buffer is no longer than the safety cap (the trim threshold).
C14_BufferBounded ==
    (rpc \in {"loop", "io", "dead"} /\ Find(buffer, MAGIC_WORD) = -1) =>
        Len(buffer) <= TrimThresholdOld

\* C27: every call of _process_buffer comes to an end: each iteration of its
\* loop either leaves the loop (break, or an exception) or leaves the buffer
\* strictly shorter, and a reader inside _process_buffer gets out of it.
C27_ProcessBufferTerminates ==
    /\ [][ProcessStep => (rpc' = "loop" \/ Len(buffer') < Len(buffer))]_vars
    /\ (rpc = "process") ~> (rpc # "process")

\* The whole of a stream that begins with a marker followed by total length
\* 0 has been read and _process_buffer has returned.
C27_Witness ==
    /\ AllStreams[sid][1].bytes = NoiseZeroLen
    /\ wire = << >>
    /\ rpc = "loop"
    /\ buffer # << >> \/ extracted # << >>

\* buf ends with the first j bytes of the marker.
EndsWithMarkerPrefix(buf, j) ==
    /\ Len(buf) >= j
    /\ SubSeq(buf, Len(buf) - j + 1, Len(buf)) = SubSeq(MAGIC_WORD, 1, j)

\* C26: when _process_buffer (OLD) trims a marker-free buffer longer than the
\* safety cap, a buffer ending with the first j bytes of the marker, 1 <= j
\* <= 7, still ends with them after the trim; and once the whole stream has
\* been read, in whatever reads, the frame after the noise has been
\* extracted.
C26_TrimKeepsSplitMarker ==
    /\ [][(ProcessStep /\ variant = "OLD" /\ Find(buffer, MAGIC_WORD) = -1
              /\ Len(buffer) > TrimThresholdOld) =>
             \A j \in 1 .. (Len(MAGIC_WORD) - 1) :
                 EndsWithMarkerPrefix(buffer, j) => EndsWithMarkerPrefix(buffer', j)]_vars
    /\ []((variant = "OLD" /\ sid = Len(Streams) + 2 /\ wire = << >>
              /\ rpc \in {"loop", "io"}) =>
             extracted = << FrameOne >>)

\* The buffer has just been trimmed to its tail, which ends with the first
\* seven bytes of the marker; the rest of the frame is still on the wire.
C26_Witness ==
    /\ variant = "OLD"
    /\ sid = Len(Streams) + 2
    /\ rpc = "loop"
    /\ Len(buffer) = Len(MAGIC_WORD) * 2
    /\ EndsWithMarkerPrefix(buffer, Len(MAGIC_WORD) - 1)
    /\ Len(wire) = Len(FrameOne) - (Len(MAGIC_WORD) - 1)
    /\ extracted = << >>

\* The buffer from its first marker on (empty when it holds no marker).
FromMarker(buf) ==
    IF MarkerOffsets(buf) = {} THEN << >>
    ELSE SubSeq(buf, SetMin(MarkerOffsets(buf)) + 1, Len(buf))

\* C19: a step of _process_buffer that takes a packet does so with the buffer
\* holding, from its first marker on, at least the total length declared at
\* offset 12; the packet is exactly that many bytes from the marker, and the
\* buffer is left holding the bytes after them, unchanged and in order.
C19_ExactSlice ==
    [][(rpc = "process" /\ extracted' # extracted) =>
          LET b1 == FromMarker(buffer)
          IN  /\ MarkerOffsets(buffer) # {}
              /\ Len(b1) >= 16
              /\ Len(b1) >= U32(b1, 12)
              /\ extracted' = Append(extracted, SubSeq(b1, 1, U32(b1, 12)))
              /\ buffer' = SubSeq(b1, U32(b1, 12) + 1, Len(b1))]_vars

\* Of three frames received in one read the first has been taken, and the
\* second starts at offset 0 of the buffer.
C19_Witness ==
    /\ sid = 6
    /\ rpc = "process"
    /\ wire = << >>
    /\ extracted = << FrameThree >>
    /\ buffer = FrameEmpty \o FrameOne

\* A declared total length a frame can have: over the header length, at most
\* 64 KiB, and covering the 40-byte header.
PlausibleLength(b1) ==
    /\ U32(b1, 8) < U32(b1, 12)
    /\ U32(b1, 12) <= 65536
    /\ U32(b1, 12) >= 40

\* The buffer holds a marker and, from it on, too few bytes to read the two
\* length fields or fewer bytes than the plausible total length declared.
NeedMoreData(buf) ==
    /\ MarkerOffsets(buf) # {}
    /\ LET b1 == FromMarker(buf)
       IN  Len(b1) < 16 \/ (PlausibleLength(b1) /\ Len(b1) < U32(b1, 12))

C8_ParseNeverRaises == ~parse_raised

(***************************************************************************)
(* Queue claims (SpecQueue).                                               *)
(***************************************************************************)
\* C6: the queue never holds more than queue_max entries, and once more than
\* queue_max objects have been offered with nothing drained it holds exactly
\* queue_max.
C6_QueueBounded ==
    /\ Len(data_q) <= QueueMax
    /\ (drained = << >> /\ Len(offered) >= QueueMax + 1) => Len(data_q) = QueueMax

\* queue_max + 1 objects were offered to the empty queue and none drained.
C6_Witness ==
    /\ drained = << >>
    /\ Len(offered) = QueueMax + 1
    /\ Len(data_q) = QueueMax

Ids(q) == [i \in 1 .. Len(q) |-> q[i].id]
StrictlyIncreasing(ids) == \A i \in 1 .. (Len(ids) - 1) : ids[i] < ids[i + 1]

\* C7: get_latest returns at most max_items entries, the oldest queued at the
\* call in queue order, and removes exactly those; what has been drained so
\* far, followed by what is queued, is a subsequence of the objects offered,
\* none twice and none out of order.
C7_DrainInOrder ==
    /\ Len(last_call.items) <= last_call.max_items
    /\ last_call.items =
           SubSeq(last_call.before, 1, Min(last_call.max_items, Len(last_call.before)))
    /\ last_call.before = last_call.items \o last_call.after
    /\ StrictlyIncreasing(Ids(drained \o data_q))
    /\ \A i \in 1 .. Len(drained) :
           /\ drained[i].id \in 1 .. Len(offered)
           /\ drained[i].obj = offered[drained[i].id]

\* Two drains, the second of one entry out of two queued, with the reader
\* having pushed again meanwhile.
C7_Witness ==
    /\ Len(drained) >= 2
    /\ last_call.max_items = 1
    /\ Len(last_call.before) = 2
    /\ Len(offered) >= 3
    /\ Len(data_q) >= 1

\* C18 as stated: in both variants, queue_max + 1 objects pushed into the
\* empty queue with no drain leave objects 2 .. queue_max + 1, in that order.
C18_EvictOldestBoth ==
    (drained = << >> /\ Len(offered) = QueueMax + 1) =>
        Ids(data_q) = [i \in 1 .. QueueMax |-> i + 1]

\* C18 as amended: with nothing drained, the OLD collector's queue holds the
\* newest queue_max objects pushed (a full queue gives up its oldest entry) and
\* the NEW collector's queue the oldest queue_max (a push to a full queue is
\* dropped), each in push order.
C18_OverflowPolicy ==
    drained = << >> =>
        LET k == Min(Len(offered), QueueMax)
        IN  /\ Ids(data_q) = [i \in 1 .. k |->
                                 IF variant = "OLD" THEN Len(offered) - k + i ELSE i]
            /\ \A i \in 1 .. Len(data_q) : data_q[i].obj = offered[data_q[i].id]

\* The NEW collector has been offered queue_max + 1 objects and kept the first
\* queue_max.
C18_Witness ==
    /\ variant = "NEW"
    /\ drained = << >>
    /\ Len(offered) = QueueMax + 1
    /\ Ids(data_q) = [i \in 1 .. QueueMax |-> i]

=============================================================================
